---- MODULE Spec2Model ----
(***************************************************************************)
(* A model of the TGA decoder parseTgaData: the header reader, the format  *)
(* classifier, the colour-map reader, the pixel-data reader (with its RLE  *)
(* packet loop) and the pixel translator.  Byte buffers are sequences of   *)
(* numbers 0..255; offsets are 0-based as in the source.                   *)
(***************************************************************************)
EXTENDS Integers, Sequences, FiniteSets, TLC

VARIABLES data, pointer, pc, hvals, header, info, colorMap, result, current,
          output, err

vars == <<data, pointer, pc, hvals, header, info, colorMap, result, current,
          output, err>>

(***************************************************************************)
(* Bounds of the model.                                                    *)
(***************************************************************************)
MaxBody == 4
MaxWidth == 2

(***************************************************************************)
(* JavaScript values and typed arrays.                                     *)
(***************************************************************************)
\* the value of an element read outside a typed array: undefined
Undef == -1

Min(a, b) == IF a < b THEN a ELSE b

\* ToInt32 of a value used as an operand of <<, >>, & or |
ToInt32(v) == IF v = Undef THEN 0 ELSE v

\* ToUint8 of a value stored in a Uint8Array element
ToUint8(v) == IF v = Undef THEN 0 ELSE v % 256

\* ToUint8Clamp of a value stored in a Uint8ClampedArray element
ToUint8Clamp(v) == IF v = Undef THEN 0 ELSE IF v > 255 THEN 255 ELSE IF v < 0 THEN 0 ELSE v

RECURSIVE BitAnd(_, _)
BitAnd(a, b) ==
    IF a = 0 \/ b = 0 THEN 0
    ELSE (a % 2) * (b % 2) + 2 * BitAnd(a \div 2, b \div 2)

RECURSIVE BitOr(_, _)
BitOr(a, b) ==
    IF a = 0 THEN b
    ELSE IF b = 0 THEN a
    ELSE (IF a % 2 = 1 \/ b % 2 = 1 THEN 1 ELSE 0) + 2 * BitOr(a \div 2, b \div 2)

Shl(a, k) == a * (2 ^ k)

Shr(a, k) == a \div (2 ^ k)

\* arr[i]
At(arr, i) == IF i >= 0 /\ i < Len(arr) THEN arr[i + 1] ELSE Undef

\* arr.subarray(begin, end): both ends are clamped to the array
Subarray(arr, begin, end) ==
    LET b == Min(begin, Len(arr))
        e == Min(end, Len(arr))
    IN  SubSeq(arr, b + 1, e)

\* arr[i] = v on a plain Array: a store at the end grows the array
ArrayStore(arr, i, v) ==
    IF i >= 0 /\ i < Len(arr) THEN [arr EXCEPT ![i + 1] = ToUint8(v)]
    ELSE Append(arr, ToUint8(v))

\* arr[i] = v on a Uint8Array: a store outside the array is dropped
TypedStore(arr, i, v) ==
    IF i >= 0 /\ i < Len(arr) THEN [arr EXCEPT ![i + 1] = ToUint8(v)] ELSE arr

\* new Uint8Array(n)
Zeros(n) == [i \in 1..n |-> 0]

(***************************************************************************)
(* readItem                                                                *)
(***************************************************************************)
RECURSIVE readItemLoop(_, _, _, _)
readItemLoop(d, i, start, res) ==
    IF i < start THEN res
    ELSE readItemLoop(d, i - 1, start, BitOr(Shl(res, 8), ToInt32(At(d, i))))

\* readItem moving the cursor before its bounds check
readItemAdvanceFirst(d, start, length) ==
    LET end == start + length
    IN  IF end > Len(d)
        THEN [ok |-> FALSE, value |-> 0, pointer |-> end]
        ELSE [ok |-> TRUE, value |-> readItemLoop(d, end - 1, start, 0), pointer |-> end]

readItem(d, start, length) ==
    LET end == start + length
    IN  IF end > Len(d)
        THEN [ok |-> FALSE, value |-> 0, pointer |-> start]
        ELSE [ok |-> TRUE, value |-> readItemLoop(d, end - 1, start, 0), pointer |-> end]

(***************************************************************************)
(* readHeader: the fields in reading order, and the record they make       *)
(***************************************************************************)
HeaderFieldLengths == <<1, 1, 1, 2, 2, 1, 2, 2, 2, 2, 1, 1>>

NoHeader ==
    [idLength |-> 0, colorMapType |-> 0, imageType |-> 0, colorMapStart |-> 0,
     colorMapLength |-> 0, colorMapEntryDepth |-> 0, xOrigin |-> 0, yOrigin |-> 0,
     width |-> 0, height |-> 0, pixelDepth |-> 0, descriptor |-> 0]

\* the header with width and height taken from each other's field
MkHeaderSwapped(v) ==
    [idLength |-> v[1], colorMapType |-> v[2], imageType |-> v[3],
     colorMapStart |-> v[4], colorMapLength |-> v[5],
     colorMapEntryDepth |-> IF v[6] = 15 THEN 16 ELSE v[6],
     xOrigin |-> v[7], yOrigin |-> v[8], width |-> v[10], height |-> v[9],
     pixelDepth |-> v[11], descriptor |-> v[12]]

MkHeader(v) ==
    [idLength |-> v[1], colorMapType |-> v[2], imageType |-> v[3],
     colorMapStart |-> v[4], colorMapLength |-> v[5],
     colorMapEntryDepth |-> IF v[6] = 15 THEN 16 ELSE v[6],
     xOrigin |-> v[7], yOrigin |-> v[8], width |-> v[9], height |-> v[10],
     pixelDepth |-> v[11], descriptor |-> v[12]]

(***************************************************************************)
(* createTgaInfo                                                           *)
(***************************************************************************)
IMAGE_TYPE_GREY == 3

NoInfo ==
    [isIndexed |-> FALSE, isGrey |-> FALSE, isRle |-> FALSE, pixelSize |-> 0,
     pixelCount |-> 0, colorMapEntrySize |-> 0, alphaDepth |-> 0]

createTgaInfo(h) ==
    [isIndexed |-> h.imageType = 1 \/ h.imageType = 9,
     isGrey |-> BitAnd(h.imageType, IMAGE_TYPE_GREY) # 0,
     isRle |-> Shr(h.imageType, 3) # 0,
     pixelSize |-> Shr(h.pixelDepth, 3),
     pixelCount |-> h.width * h.height,
     colorMapEntrySize |-> Shr(h.colorMapEntryDepth, 3),
     alphaDepth |-> BitAnd(h.descriptor, 15)]

(***************************************************************************)
(* The pixel translator                                                    *)
(***************************************************************************)
Pixel(p) == [err |-> "", px |-> p]

Throw(e) == [err |-> e, px |-> <<>>]

getColorFrom1ByteEntry(entry) ==
    <<At(entry, 0), At(entry, 0), At(entry, 0), 255>>

getColorFrom2ByteEntry(entry) ==
    LET value == BitOr(Shl(ToInt32(At(entry, 1)), 8), ToInt32(At(entry, 0)))
        r == Shr(BitAnd(value, 31744), 10)
        g == Shr(BitAnd(value, 992), 5)
        b == Shr(BitAnd(value, 31), 0)
    IN  <<BitOr(Shl(r, 3), Shr(r, 2)),
          BitOr(Shl(g, 3), Shr(g, 2)),
          BitOr(Shl(b, 3), Shr(b, 2)),
          255>>

getGreyColorFrom2ByteEntry(entry, alphaDepth) ==
    <<At(entry, 0), At(entry, 0), At(entry, 0),
      IF alphaDepth = 8 THEN At(entry, 1) ELSE 255>>

getColorFrom3ByteEntry(entry) ==
    <<At(entry, 2), At(entry, 1), At(entry, 0), 255>>

getColorFrom4ByteEntry(entry, alphaDepth) ==
    <<At(entry, 2), At(entry, 1), At(entry, 0),
      IF alphaDepth = 8 THEN At(entry, 3) ELSE 255>>

\* cm is [null, bytes]; index may be undefined, which makes start NaN and
\* the view empty
getColorMapPixel(inf, cm, index) ==
    LET size == inf.colorMapEntrySize
        start == index * size
        entry == IF index = Undef THEN <<>>
                 ELSE Subarray(cm.bytes, start, start + size)
    IN  IF cm.null THEN Throw("TypeError")
        ELSE IF size = 2 THEN Pixel(getColorFrom2ByteEntry(entry))
        ELSE IF size = 3 THEN Pixel(getColorFrom3ByteEntry(entry))
        ELSE IF size = 4 THEN Pixel(getColorFrom4ByteEntry(entry, inf.alphaDepth))
        ELSE Throw("UnsupportedColorMapEntrySize")

getPixel(inf, imageData, cm, index) ==
    LET pixelSize == inf.pixelSize
        start == index * pixelSize
        entry == Subarray(imageData, start, start + pixelSize)
    IN  IF pixelSize = 1 THEN
            IF inf.isIndexed THEN getColorMapPixel(inf, cm, At(entry, 0))
            ELSE IF inf.isGrey THEN Pixel(getColorFrom1ByteEntry(entry))
            ELSE Throw("UnsupportedPixelSizeTrueColor")
        ELSE IF pixelSize = 2 THEN
            IF inf.isIndexed
            THEN getColorMapPixel(inf, cm,
                     BitOr(Shl(ToInt32(At(entry, 1)), 8), ToInt32(At(entry, 0))))
            ELSE IF inf.isGrey
            THEN Pixel(getGreyColorFrom2ByteEntry(entry, inf.alphaDepth))
            ELSE Pixel(getColorFrom2ByteEntry(entry))
        ELSE IF pixelSize = 3 THEN Pixel(getColorFrom3ByteEntry(entry))
        ELSE IF pixelSize = 4 THEN Pixel(getColorFrom4ByteEntry(entry, inf.alphaDepth))
        ELSE Throw("UnsupportedPixelSize")

RECURSIVE parseImageDataLoop(_, _, _, _, _)
parseImageDataLoop(inf, imageData, cm, i, displayData) ==
    IF i >= inf.pixelCount THEN [err |-> "", px |-> displayData]
    ELSE LET pixel == getPixel(inf, imageData, cm, i)
         IN  IF pixel.err # "" THEN pixel
             ELSE parseImageDataLoop(inf, imageData, cm, i + 1,
                      [displayData EXCEPT
                          ![i * 4 + 1] = ToUint8Clamp(pixel.px[1]),
                          ![i * 4 + 2] = ToUint8Clamp(pixel.px[2]),
                          ![i * 4 + 3] = ToUint8Clamp(pixel.px[3]),
                          ![i * 4 + 4] = ToUint8Clamp(pixel.px[4])])

parseImageData(inf, imageData, cm) ==
    parseImageDataLoop(inf, imageData, cm, 0, Zeros(inf.pixelCount * 4))

(***************************************************************************)
(* readImageData: one packet of the RLE loop                               *)
(***************************************************************************)
\* target.set(source, offset) on a Uint8Array: RangeError when the source
\* does not fit at the offset
TypedSet(target, source, offset) ==
    IF Len(source) + offset > Len(target)
    THEN [err |-> "RangeError", arr |-> target]
    ELSE [err |-> "",
          arr |-> [k \in 1..Len(target) |->
                      IF k > offset /\ k <= offset + Len(source)
                      THEN source[k - offset] ELSE target[k]]]

\* the copy loop of an RLE packet starting at i = 1
RECURSIVE rleCopyFromOne(_, _, _, _, _, _)
rleCopyFromOne(res, cur, pixel, pixelSize, i, pixelCount) ==
    IF i + 1 >= pixelCount THEN [err |-> "", result |-> res, current |-> cur]
    ELSE LET s == TypedSet(res, pixel, cur)
         IN  IF s.err # "" THEN [err |-> s.err, result |-> res, current |-> cur]
             ELSE rleCopyFromOne(s.arr, cur + pixelSize, pixel, pixelSize, i + 1, pixelCount)

\* for (i = 0; i < pixelCount; i++) { result.set(pixel, current); current += pixelSize }
RECURSIVE rleCopy(_, _, _, _, _, _)
rleCopy(res, cur, pixel, pixelSize, i, pixelCount) ==
    IF i >= pixelCount THEN [err |-> "", result |-> res, current |-> cur]
    ELSE LET s == TypedSet(res, pixel, cur)
         IN  IF s.err # "" THEN [err |-> s.err, result |-> res, current |-> cur]
             ELSE rleCopy(s.arr, cur + pixelSize, pixel, pixelSize, i + 1, pixelCount)

\* for (i = 0; i < byteCount; i += 1) { result[current++] = data[pointer.value++] }
RECURSIVE rawCopy(_, _, _, _, _, _)
rawCopy(d, ptr, res, cur, i, byteCount) ==
    IF i >= byteCount THEN [result |-> res, current |-> cur, pointer |-> ptr]
    ELSE rawCopy(d, ptr + 1, TypedStore(res, cur, At(d, ptr)), cur + 1, i + 1, byteCount)

\* the low 7 bits of a packet header taken as the count itself
packetPixelCountLowBits(hdr) == BitAnd(ToInt32(hdr), 127)

\* the number of pixels a packet header announces
packetPixelCount(hdr) == BitAnd(ToInt32(hdr), 127) + 1

\* the kind of packet a packet header announces: 0 raw, 1 RLE
packetType(hdr) == Shr(BitAnd(ToInt32(hdr), 128), 7)

\* the body of the while loop
readPacket(d, ptr, res, cur, pixelSize) ==
    LET hdr == At(d, ptr)
        p1 == ptr + 1
        type == packetType(hdr)
        pixelCount == packetPixelCount(hdr)
    IN  IF type = 1
        THEN LET pixel == Subarray(d, p1, p1 + pixelSize)
                 c == rleCopy(res, cur, pixel, pixelSize, 0, pixelCount)
             IN  [err |-> c.err, result |-> c.result, current |-> c.current,
                  pointer |-> p1 + pixelSize]
        ELSE LET c == rawCopy(d, p1, res, cur, 0, pixelCount * pixelSize)
             IN  [err |-> "", result |-> c.result, current |-> c.current,
                  pointer |-> c.pointer]

(***************************************************************************)
(* The input buffers                                                       *)
(***************************************************************************)
Lo(n) == n % 256

Hi(n) == n \div 256

EncodeHeader(h) ==
    <<h.idLength, h.colorMapType, h.imageType, 0, 0,
      Lo(h.colorMapLength), Hi(h.colorMapLength), h.colorMapEntryDepth,
      0, 0, 0, 0, Lo(h.width), Hi(h.width), Lo(h.height), Hi(h.height),
      h.pixelDepth, h.descriptor>>

Dims == {<<w, 1>> : w \in 0..MaxWidth}

\* true-colour and grey images, plain and RLE
DirectHeaders ==
    [idLength : {0}, colorMapType : {0}, imageType : {2, 3, 10, 11},
     colorMapLength : {0}, colorMapEntryDepth : {0}, dim : Dims,
     pixelDepth : {8, 24}, descriptor : {0}]
    \cup
    [idLength : {0}, colorMapType : {0}, imageType : {2, 3, 10, 11},
     colorMapLength : {0}, colorMapEntryDepth : {0}, dim : Dims,
     pixelDepth : {16, 32}, descriptor : {8}]
    \cup
    [idLength : {0}, colorMapType : {0}, imageType : {2, 3, 10, 11},
     colorMapLength : {0}, colorMapEntryDepth : {0}, dim : Dims,
     pixelDepth : {16}, descriptor : {0}]
    \cup
    [idLength : {0}, colorMapType : {0}, imageType : {2, 3},
     colorMapLength : {0}, colorMapEntryDepth : {0}, dim : Dims,
     pixelDepth : {32}, descriptor : {0}]

\* colour-mapped images with a colour map of one entry
IndexedHeaders ==
    [idLength : {0}, colorMapType : {1}, imageType : {1, 9},
     colorMapLength : {1}, colorMapEntryDepth : {8, 15, 24, 32}, dim : Dims,
     pixelDepth : {8}, descriptor : {8}]
    \cup
    [idLength : {0}, colorMapType : {1}, imageType : {1, 9},
     colorMapLength : {1}, colorMapEntryDepth : {24}, dim : Dims,
     pixelDepth : {16}, descriptor : {8}]

\* an image id to skip, images of type 0, a colour-mapped image without a
\* colour map, an empty colour map and pixel depths the translator does not
\* know
OddHeaders ==
    [idLength : {1}, colorMapType : {0, 1}, imageType : {0, 1, 2},
     colorMapLength : {0}, colorMapEntryDepth : {24}, dim : {<<1, 1>>, <<1, 2>>},
     pixelDepth : {0, 8, 24, 40}, descriptor : {0}]

Headers == DirectHeaders \cup IndexedHeaders \cup OddHeaders

\* the bytes after the header: packet headers (0: raw, 1 pixel; 1: raw,
\* 2 pixels; 129: RLE, 2 pixels), palette indices and colour values
BodyBytes(h) ==
    IF h.imageType \in {9, 10, 11} THEN {0, 1, 129}
    ELSE IF h.imageType = 1 THEN {0, 1}
    ELSE {1, 129}

Bodies(h) == UNION {[1..n -> BodyBytes(h)] : n \in 0..MaxBody}

Buffer(h, body) ==
    EncodeHeader([h EXCEPT !.dim = 0] @@ [width |-> h.dim[1], height |-> h.dim[2]])
        \o body

\* a file cut short inside its header
ShortBuffers ==
    {SubSeq(<<0, 0, 2, 0, 0, 0, 0, 0, 0, 0, 0, 0, 1, 0, 1, 0, 24, 0>>, 1, n) : n \in 0..17}

Inputs == UNION {{Buffer(h, body) : body \in Bodies(h)} : h \in Headers} \cup ShortBuffers

(***************************************************************************)
(* parseTgaData as a state machine                                         *)
(***************************************************************************)
NoOutput == [imageData |-> <<>>, width |-> 0, height |-> 0]

NoColorMap == [null |-> TRUE, bytes |-> <<>>]

Init ==
    /\ data \in Inputs
    /\ pointer = 0
    /\ pc = "readHeader"
    /\ hvals = <<>>
    /\ header = NoHeader
    /\ info = NoInfo
    /\ colorMap = NoColorMap
    /\ result = <<>>
    /\ current = 0
    /\ output = NoOutput
    /\ err = ""

\* one readItem of readHeader; the last one completes the header
ReadHeaderItem ==
    /\ pc = "readHeader"
    /\ LET r == readItem(data, pointer, HeaderFieldLengths[Len(hvals) + 1])
           v == Append(hvals, r.value)
       IN  IF ~r.ok
           THEN /\ pc' = "failed"
                /\ err' = "NoEnoughData"
                /\ pointer' = r.pointer
                /\ UNCHANGED <<hvals, header>>
           ELSE /\ pointer' = r.pointer
                /\ hvals' = v
                /\ IF Len(v) = Len(HeaderFieldLengths)
                   THEN header' = MkHeader(v) /\ pc' = "createTgaInfo"
                   ELSE UNCHANGED <<header, pc>>
                /\ UNCHANGED err
    /\ UNCHANGED <<data, info, colorMap, result, current, output>>

\* the cursor set to the id length instead of moved by it
skipImageIdAssign(ptr, h) == h.idLength

skipImageId(ptr, h) == ptr + h.idLength

\* createTgaInfo and the skip of the image id
CreateTgaInfo ==
    /\ pc = "createTgaInfo"
    /\ info' = createTgaInfo(header)
    /\ pointer' = skipImageId(pointer, header)
    /\ pc' = "readColorMap"
    /\ UNCHANGED <<data, hvals, header, colorMap, result, current, output, err>>

colorMapByteCount(h) == h.colorMapLength * Shr(h.colorMapEntryDepth, 3)

ReadColorMap ==
    /\ pc = "readColorMap"
    /\ IF header.colorMapType = 0
       THEN UNCHANGED <<colorMap, pointer>>
       ELSE /\ colorMap' = [null |-> FALSE,
                            bytes |-> Subarray(data, pointer,
                                          pointer + colorMapByteCount(header))]
            /\ pointer' = pointer + colorMapByteCount(header)
    /\ pc' = "readImageData"
    /\ UNCHANGED <<data, hvals, header, info, result, current, output, err>>

totalByteCount(inf) == inf.pixelCount * inf.pixelSize

\* readImageData up to the first test of the while loop
ReadImageData ==
    /\ pc = "readImageData"
    /\ IF ~info.isRle
       THEN /\ result' = Subarray(data, pointer, pointer + totalByteCount(info))
            /\ pointer' = pointer + totalByteCount(info)
            /\ pc' = "parseImageData"
       ELSE /\ result' = Zeros(totalByteCount(info))
            /\ pc' = IF 0 < totalByteCount(info) THEN "rlePacket" ELSE "parseImageData"
            /\ UNCHANGED pointer
    /\ current' = 0
    /\ UNCHANGED <<data, hvals, header, info, colorMap, output, err>>

\* one iteration of the while loop and the test that follows it
RlePacket ==
    /\ pc = "rlePacket"
    /\ LET r == readPacket(data, pointer, result, current, info.pixelSize)
       IN  /\ result' = r.result
           /\ current' = r.current
           /\ pointer' = r.pointer
           /\ IF r.err # ""
              THEN pc' = "failed" /\ err' = r.err
              ELSE /\ pc' = IF r.current < totalByteCount(info)
                            THEN "rlePacket" ELSE "parseImageData"
                   /\ UNCHANGED err
    /\ UNCHANGED <<data, hvals, header, info, colorMap, output>>

\* parseImageData and the return of parseTgaData
ParseImageData ==
    /\ pc = "parseImageData"
    /\ LET r == parseImageData(info, result, colorMap)
       IN  IF r.err # ""
           THEN pc' = "failed" /\ err' = r.err /\ UNCHANGED output
           ELSE /\ pc' = "done"
                /\ output' = [imageData |-> r.px, width |-> header.width,
                              height |-> header.height]
                /\ UNCHANGED err
    /\ UNCHANGED <<data, pointer, hvals, header, info, colorMap, result, current>>

Next ==
    \/ ReadHeaderItem
    \/ CreateTgaInfo
    \/ ReadColorMap
    \/ ReadImageData
    \/ RlePacket
    \/ ParseImageData

Spec == Init /\ [][Next]_vars

\* RLE images of pixel sizes 0, 1 and 2, whole and cut short
RleHeaders ==
    [idLength : {0}, colorMapType : {0}, imageType : {10},
     colorMapLength : {0}, colorMapEntryDepth : {0}, dim : Dims,
     pixelDepth : {8}, descriptor : {0}]
    \cup
    [idLength : {0}, colorMapType : {0}, imageType : {10},
     colorMapLength : {0}, colorMapEntryDepth : {0}, dim : {<<1, 1>>},
     pixelDepth : {0, 16}, descriptor : {0}]

RleInputs == UNION {{Buffer(h, body) : body \in Bodies(h)} : h \in RleHeaders}

InitRle ==
    /\ data \in RleInputs
    /\ pointer = 0
    /\ pc = "readHeader"
    /\ hvals = <<>>
    /\ header = NoHeader
    /\ info = NoInfo
    /\ colorMap = NoColorMap
    /\ result = <<>>
    /\ current = 0
    /\ output = NoOutput
    /\ err = ""

\* a decode of an RLE image; it runs to its end, nothing suspends it
FairSpec == InitRle /\ [][Next]_vars /\ WF_vars(Next)

(***************************************************************************)
(* What the claims speak of                                                *)
(***************************************************************************)
\* the size of the header
HeaderSize == 18

Terminated == pc \in {"done", "failed"}

\* the 16-bit little-endian field at 0-based offset off of the buffer
FieldLE(off) == data[off + 1] + 256 * data[off + 2]

\* the offset of the k-th header field
RECURSIVE FieldOffset(_)
FieldOffset(k) == IF k <= 1 THEN 0 ELSE FieldOffset(k - 1) + HeaderFieldLengths[k - 1]

\* the first header field that does not fit in a buffer of n bytes
FirstShortField(n) ==
    CHOOSE k \in 1..Len(HeaderFieldLengths) :
        /\ FieldOffset(k) + HeaderFieldLengths[k] > n
        /\ \A j \in 1..(k - 1) : FieldOffset(j) + HeaderFieldLengths[j] <= n

\* where the colour map and the pixel data start
ColorMapStart == HeaderSize + header.idLength

ColorMapBytes ==
    IF header.colorMapType # 0
    THEN header.colorMapLength * info.colorMapEntrySize ELSE 0

ImageStart == ColorMapStart + ColorMapBytes

\* C1: when parseTgaData returns, the width and height it returns are the
\* little-endian 16-bit fields at bytes 12-13 and 14-15 of the buffer, and
\* the pixel buffer it returns holds width*height*4 bytes.
C1_Dimensions ==
    pc = "done" =>
        /\ output.width = FieldLE(12)
        /\ output.height = FieldLE(14)
        /\ Len(output.imageData) = FieldLE(12) * FieldLE(14) * 4

C1_Witness ==
    /\ pc = "done"
    /\ output.width = 2
    /\ output.height = 1
    /\ Len(output.imageData) = 8

\* C6: a buffer shorter than the header makes the header reader fail, with
\* the not-enough-data error, at the first field that does not fit; the
\* cursor stays at the start of that field and nothing is returned.
C6_ShortHeader ==
    Len(data) < HeaderSize =>
        /\ pc \in {"readHeader", "failed"}
        /\ pointer <= FieldOffset(FirstShortField(Len(data)))
        /\ pc = "failed" =>
              /\ err = "NoEnoughData"
              /\ pointer = FieldOffset(FirstShortField(Len(data)))
              /\ Len(hvals) = FirstShortField(Len(data)) - 1
              /\ output = NoOutput

C6_Witness ==
    /\ pc = "failed"
    /\ Len(data) = 4
    /\ pointer = 3
    /\ err = "NoEnoughData"

\* C10: no step of a decode moves the cursor backwards, and the step that
\* completes the header leaves the cursor at 18.
C10_CursorMonotonic ==
    [][/\ pointer' >= pointer
       /\ (pc = "readHeader" /\ pc' = "createTgaInfo") => pointer' = HeaderSize]_vars

C10_Witness ==
    /\ pc = "done"
    /\ header.idLength = 1
    /\ pointer > HeaderSize + 1

(***************************************************************************)
(* The RLE packet stream read on its own terms: the packets from offset p  *)
(* that make n pixels of size bytes each.  ok says that the stream lies    *)
(* inside the buffer and makes exactly n pixels.                           *)
(***************************************************************************)
RECURSIVE Repeat(_, _)
Repeat(s, n) == IF n <= 0 THEN <<>> ELSE s \o Repeat(s, n - 1)

RECURSIVE RefExpand(_, _, _, _)
RefExpand(d, p, size, n) ==
    IF n = 0 \/ size = 0 THEN [ok |-> TRUE, bytes |-> <<>>]
    ELSE IF p >= Len(d) THEN [ok |-> FALSE, bytes |-> <<>>]
    ELSE LET hb == d[p + 1]
             cnt == (hb % 128) + 1
             used == IF hb >= 128 THEN size ELSE cnt * size
             body == SubSeq(d, p + 2, p + 1 + used)
             rest == RefExpand(d, p + 1 + used, size, n - cnt)
         IN  IF cnt > n \/ p + 1 + used > Len(d) \/ ~rest.ok
             THEN [ok |-> FALSE, bytes |-> <<>>]
             ELSE [ok |-> TRUE,
                   bytes |-> (IF hb >= 128 THEN Repeat(body, cnt) ELSE body)
                                 \o rest.bytes]

RefImage == RefExpand(data, ImageStart, info.pixelSize, info.pixelCount)

\* C5: for an RLE image whose packet stream lies inside the buffer and
\* makes exactly pixelCount pixels, readImageData returns, and the buffer
\* it returns is the expansion of the packets in order: a run packet gives
\* its pixel count times, a raw packet gives its bytes unchanged.
C5_RleExpansion ==
    (info.isRle /\ RefImage.ok) =>
        /\ pc = "parseImageData" => result = RefImage.bytes
        /\ pc = "failed" => err # "RangeError"

C5_Witness ==
    /\ pc = "parseImageData"
    /\ info.isRle
    /\ RefImage.ok
    /\ At(data, ImageStart) = 129
    /\ result = <<1, 0, 1, 0>>

\* C8: the RLE path of readImageData stores nothing beyond the
\* pixelCount*pixelSize bytes of its buffer: while it runs and when it
\* returns, also after a packet that announces more pixels than are left,
\* the buffer holds exactly that many bytes.
C8_NoOverrun ==
    (info.isRle /\ pc \in {"rlePacket", "parseImageData", "done", "failed"}) =>
        Len(result) = info.pixelCount * info.pixelSize

\* a raw packet of 2 pixels for an image of 1 pixel has been read
C8_Witness ==
    /\ pc = "parseImageData"
    /\ info.isRle
    /\ info.pixelCount = 1
    /\ current > Len(result)
    /\ Len(result) > 0

\* C9: the RLE loop ends.  It is entered only below the target length, an
\* iteration that stays in the loop has moved the output position forward,
\* and every decode returns or fails.
C9_Termination ==
    /\ [](pc = "rlePacket" => current < totalByteCount(info))
    /\ [][(pc = "rlePacket" /\ pc' = "rlePacket") => current' > current]_vars
    /\ <>Terminated

\* the buffer ended inside the packet stream and the loop went on to its end
C9_Witness ==
    /\ pc = "parseImageData"
    /\ info.isRle
    /\ pointer > Len(data)
    /\ current >= totalByteCount(info)
    /\ totalByteCount(info) > 0

(***************************************************************************)
(* Reads that need more bytes than the buffer holds                        *)
(***************************************************************************)
\* the colour-map region does not fit in the buffer
ColorMapShort == ColorMapBytes > 0 /\ ColorMapStart + ColorMapBytes > Len(data)

\* the pixel region of an image without RLE does not fit in the buffer
PixelRegionShort ==
    ~info.isRle /\ totalByteCount(info) > 0
                /\ ImageStart + totalByteCount(info) > Len(data)

\* the packet loop has read a packet header, a pixel or a literal run that
\* reaches beyond the buffer
PacketShort == info.isRle /\ totalByteCount(info) > 0 /\ pointer > Len(data)

\* C2: a decode in which the colour-map region, the pixel region or an RLE
\* packet needs more bytes than the buffer holds returns no result.
C2_TruncatedDataFails ==
    pc = "done" => ~(ColorMapShort \/ PixelRegionShort \/ PacketShort)

\* the 5-5-5 expansion of the 2-byte little-endian word at pixel i
Expand5(v) == v * 8 + v \div 4

Word555(raw, i) == raw[2 * i + 1] + 256 * raw[2 * i + 2]

Rgb555(w) ==
    <<Expand5((w \div 1024) % 32), Expand5((w \div 32) % 32), Expand5(w % 32), 255>>

\* C3: in the result of a true-colour image (type 2 or 10) of pixel depth
\* 16, every pixel is the 5-5-5 expansion of its word, with alpha 255.
C3_TrueColor555 ==
    (/\ pc = "done"
     /\ header.imageType \in {2, 10}
     /\ header.pixelDepth = 16
     /\ Len(result) = 2 * info.pixelCount) =>
        \A i \in 0..(info.pixelCount - 1) :
            SubSeq(output.imageData, 4 * i + 1, 4 * i + 4) = Rgb555(Word555(result, i))

\* C4: a true-colour image (type 2 or 10) of pixel depth 8 with at least
\* one pixel is not decoded: no result is returned.  (Stated for the images
\* whose pixel bytes are all in the buffer.)
C4_OneByteTrueColorFails ==
    pc = "done" =>
        ~(/\ header.imageType \in {2, 10}
          /\ header.pixelDepth = 8
          /\ header.width * header.height >= 1
          /\ Len(result) = header.width * header.height
          /\ pointer <= Len(data))

\* the palette index of pixel i of the raw pixel buffer
PaletteIndex(raw, i) ==
    IF info.pixelSize = 1 THEN raw[i + 1] ELSE raw[2 * i + 1] + 256 * raw[2 * i + 2]

\* some pixel of the raw pixel buffer holds an index beyond the colour map
IndexOutOfRange ==
    /\ header.imageType \in {1, 9}
    /\ header.colorMapType # 0
    /\ info.colorMapEntrySize \in {2, 3, 4}
    /\ info.pixelSize \in {1, 2}
    /\ \E i \in 0..(info.pixelCount - 1) :
          /\ (i + 1) * info.pixelSize <= Len(result)
          /\ (PaletteIndex(result, i) + 1) * info.colorMapEntrySize
                 > header.colorMapLength * info.colorMapEntrySize

\* C7: a colour-mapped image with a pixel whose index lies beyond the colour
\* map is not decoded: no result is returned.
C7_IndexOutOfRangeFails == pc = "done" => ~IndexOutOfRange

====
